---- MODULE Spec2Model ----
(***************************************************************************)
(* Book inventory and lending on a spreadsheet store.                      *)
(*                                                                         *)
(* Sheet 0 (the catalog) and the sheet "transactions" (the ledger) are     *)
(* sequences of rows in append order.  Every route handler is one action.  *)
(* A JavaScript Date is an instant, counted here in hours since            *)
(* 2024-01-01T00:00Z; a date string "YYYY-MM-DD" is the tuple <<y, m, d>>  *)
(* and the empty string of a date column is <<>>.  A string that the code   *)
(* takes apart or puts together (an ISBN, the authors) is the sequence of  *)
(* its characters.                                                         *)
(***************************************************************************)
EXTENDS Integers, Sequences, FiniteSets, TLC

VARIABLES
    env,      \* process.env of the deployment, fixed for the process lifetime
    clock,    \* the instant new Date() returns now
    catalog,  \* rows of sheet 0
    ledger,   \* rows of the sheet "transactions"
    slack,    \* messages POSTed to the Slack webhook, in order
    fetched,  \* the calls to the bibliographic providers the last lookup made
    mail,     \* the mails the last reminder run handed to the transporter
    resp,     \* the last request handled and the response it got
    inflight, \* per caller, the request a handler is suspended in at an await
    page      \* the user page in the browser: its React state and its scanner

vars == <<env, clock, catalog, ledger, slack, fetched, mail, resp, inflight, page>>

\* what lives outside the route handlers that run from request to response
client == <<inflight, page>>

-----------------------------------------------------------------------------
(* Bounds of the model *)

\* rows the ledger may hold
MaxLoans == 2
\* rows the catalog may hold
MaxBooks == 2

-----------------------------------------------------------------------------
(* The civil calendar, days counted from 2024-01-01 = day 0 *)

IsLeap(y) == (y % 4 = 0 /\ y % 100 # 0) \/ y % 400 = 0

DaysInYear(y) == IF IsLeap(y) THEN 366 ELSE 365

DaysInMonth(y, m) ==
    IF m = 2 THEN (IF IsLeap(y) THEN 29 ELSE 28)
    ELSE IF m \in {4, 6, 9, 11} THEN 30 ELSE 31

RECURSIVE DaysBeforeYear(_)
DaysBeforeYear(y) == IF y <= 2024 THEN 0 ELSE DaysBeforeYear(y - 1) + DaysInYear(y - 1)

RECURSIVE DaysBeforeMonth(_, _)
DaysBeforeMonth(y, m) == IF m <= 1 THEN 0 ELSE DaysBeforeMonth(y, m - 1) + DaysInMonth(y, m - 1)

\* the day number of year y, month m, day-of-month d; d may lie outside the month
DayNumber(y, m, d) == DaysBeforeYear(y) + DaysBeforeMonth(y, m) + d - 1

RECURSIVE CivilFrom(_, _, _)
CivilFrom(y, m, n) ==
    IF n >= DaysInYear(y) /\ m = 1 THEN CivilFrom(y + 1, 1, n - DaysInYear(y))
    ELSE IF n >= DaysInMonth(y, m) THEN CivilFrom(y, m + 1, n - DaysInMonth(y, m))
    ELSE <<y, m, n + 1>>

\* the civil date <<y, m, d>> of day number n >= 0
CivilFromDay(n) == CivilFrom(2024, 1, n)

\* d calendar days after the civil date c
AddDays(c, d) == CivilFromDay(DayNumber(c[1], c[2], c[3]) + d)

-----------------------------------------------------------------------------
(* JavaScript Date in the server's time zone, and the JST formatter *)

\* hours JST is ahead of UTC (timeZone: 'Asia/Tokyo')
JstOffset == 9

LocalCivil(t, tz) == CivilFromDay((t + tz) \div 24)

LocalHour(t, tz) == (t + tz) % 24

\* Date.prototype.getDate: the day of the month in the server's zone
GetDate(t, tz) == LocalCivil(t, tz)[3]

\* Date.prototype.setDate: the instant with the local day of the month set to n,
\* an n outside the month rolling over into the following months
SetDate(t, n, tz) ==
    LET c == LocalCivil(t, tz)
    IN  (DayNumber(c[1], c[2], 1) + n - 1) * 24 + LocalHour(t, tz) - tz

\* Intl.DateTimeFormat('ja-JP', {timeZone: 'Asia/Tokyo', ...}).format(date), "/" -> "-"
getJstDateString(t) == CivilFromDay((t + JstOffset) \div 24)

-----------------------------------------------------------------------------
(* Deployments, instants and requests the model enumerates *)

\* process.env: the spreadsheet credentials, SLACK_WEBHOOK_URL, the Gmail account,
\* CRON_SECRET, ADMIN_EMAILS (the addresses and the characters between them; <<>>
\* when unset), and the server's zone (hours ahead of UTC)
EnvUtc ==
    [sheet |-> TRUE, slackUrl |-> TRUE, gmail |-> TRUE, cronSecret |-> TRUE, tz |-> 0,
     adminEmails |-> <<"alice@example.com", ",", "carol@example.com">>]
EnvJst ==
    [sheet |-> TRUE, slackUrl |-> FALSE, gmail |-> TRUE, cronSecret |-> FALSE, tz |-> 9,
     adminEmails |-> <<"carol@example.com", ",", " ", "bob@example.com">>]
EnvNoSheet ==
    [sheet |-> FALSE, slackUrl |-> TRUE, gmail |-> FALSE, cronSecret |-> FALSE, tz |-> 0,
     adminEmails |-> <<>>]

\* 2024-01-31T23:00Z, the last hour of the month in UTC (08:00 on 02-01 in JST)
JanuaryEnd == 30 * 24 + 23
\* 2024-12-25T03:00Z, noon of 12-25 in JST, two weeks before 2025-01-08
Christmas == 359 * 24 + 3

\* the deployments followed, each from the instant the first request arrives
Deployments ==
    { [env |-> EnvUtc, clock |-> JanuaryEnd],
      [env |-> EnvJst, clock |-> Christmas],
      [env |-> EnvNoSheet, clock |-> JanuaryEnd] }

\* the instants new Date() is read at: each starting hour and the hour after it
Instants == { d.clock : d \in Deployments } \cup { d.clock + 1 : d \in Deployments }

ISBN1 == <<"9", "1">>
ISBN2 == <<"4", "X">>

\* getServerSession: no session, or the user of a verified Google account
Sessions ==
    { [present |-> FALSE, email |-> "", name |-> ""],
      [present |-> TRUE, email |-> "alice@example.com", name |-> "Alice"],
      [present |-> TRUE, email |-> "bob@example.com", name |-> ""] }

\* bodies of POST /api/lending; ok = FALSE is a body req.json() cannot parse
LendBodies ==
    { [ok |-> TRUE, isbn |-> ISBN1, title |-> "Test Book", borrowerGroup |-> "Eng"],
      [ok |-> TRUE, isbn |-> ISBN2, title |-> "", borrowerGroup |-> "Eng"],
      [ok |-> TRUE, isbn |-> <<>>, title |-> "Test Book", borrowerGroup |-> "Eng"],
      [ok |-> TRUE, isbn |-> ISBN1, title |-> "Test Book", borrowerGroup |-> ""],
      [ok |-> FALSE, isbn |-> <<>>, title |-> "", borrowerGroup |-> ""] }

\* bodies of POST /api/lending as the handler without sessions reads them
LegacyLendBodies ==
    { [ok |-> TRUE, isbn |-> ISBN1, title |-> "Test Book", borrowerName |-> "Carol",
       borrowerGroup |-> "Eng"],
      [ok |-> TRUE, isbn |-> ISBN1, title |-> "Test Book", borrowerName |-> "",
       borrowerGroup |-> "Eng"] }

\* the Authorization header of a reminder request: none, the one made of
\* CRON_SECRET, one made of another secret
AuthHeaders == {"", "Bearer secret", "Bearer other"}

\* the paths of page requests, character by character
Pathnames ==
    { <<"/">>,
      <<"/", "u", "s", "e", "r">>,
      <<"/", "l", "o", "g", "i", "n">>,
      <<"/", "a", "p", "i", "/", "b">>,
      <<"/", "a", "d", "m">>,
      <<"/", "a", "d", "m", "i", "n">>,
      <<"/", "a", "d", "m", "i", "n", "/">>,
      <<"/", "a", "d", "m", "i", "n", "/", "b">>,
      <<"/", "a", "d", "m", "i", "n", "s">> }

\* the session token of a page request: none, or one with the email it carries
Tokens ==
    { [present |-> FALSE, email |-> ""],
      [present |-> TRUE, email |-> ""],
      [present |-> TRUE, email |-> "alice@example.com"],
      [present |-> TRUE, email |-> "bob@example.com"],
      [present |-> TRUE, email |-> "carol@example.com"] }

\* bodies of PUT /api/lending
ReturnBodies ==
    { [ok |-> TRUE, isbn |-> ISBN1], [ok |-> TRUE, isbn |-> ISBN2],
      [ok |-> TRUE, isbn |-> <<>>], [ok |-> FALSE, isbn |-> <<>>] }

\* bodies of POST /api/register; authors is an array (authorList) or a string
RegisterBodies ==
    { [ok |-> TRUE, isbn |-> ISBN1, title |-> "Test Book", isArray |-> TRUE,
       authorList |-> <<<<"A">>, <<"B">>>>, authorText |-> <<>>, publishedDate |-> "2020",
       thumbnailUrl |-> "u1"],
      [ok |-> TRUE, isbn |-> ISBN2, title |-> "Other", isArray |-> FALSE,
       authorList |-> <<>>, authorText |-> <<"C">>, publishedDate |-> "", thumbnailUrl |-> ""],
      [ok |-> TRUE, isbn |-> ISBN1, title |-> "", isArray |-> FALSE,
       authorList |-> <<>>, authorText |-> <<>>, publishedDate |-> "", thumbnailUrl |-> ""],
      [ok |-> TRUE, isbn |-> <<"9", "-", "1">>, title |-> "Test Book", isArray |-> FALSE,
       authorList |-> <<>>, authorText |-> <<"A">>, publishedDate |-> "2020",
       thumbnailUrl |-> ""],
      [ok |-> FALSE, isbn |-> <<>>, title |-> "", isArray |-> FALSE,
       authorList |-> <<>>, authorText |-> <<>>, publishedDate |-> "", thumbnailUrl |-> ""] }

-----------------------------------------------------------------------------
(* Helpers of the handlers *)

\* a response: the request's kind and ISBN, the HTTP status, what console.error
\* logged while handling it (with the call that threw, when it was the write),
\* and the payload (a sequence, empty on an error)
Response(op, isbn, status, log, data) ==
    [op |-> op, isbn |-> isbn, status |-> status, log |-> log, data |-> data]

\* the callers whose requests may be in flight together
Callers == {1, 2}

\* a caller with no request in flight
Idle == [op |-> "idle", body |-> <<>>, rows |-> <<>>]

\* the user page after its first render: the initial values of its useState calls
\* (mode "null" is null, book <<>> is null), no scanner mounted, nothing in front
\* of the camera, no fetch in flight
PageLoaded ==
    [mode |-> "null", step |-> "select", book |-> <<>>, borrowerGroup |-> "",
     loading |-> FALSE, message |-> "", error |-> "",
     scanner |-> <<>>, camera |-> <<>>, lookup |-> <<>>, submit |-> <<>>]

\* a generator that hands out one identifier again and again
UuidRepeated(rows) == 1

\* uuidv4(): an identifier no row of the sheet carries
UuidV4(rows) == Len(rows) + 1

\* Array.prototype.reverse
Reverse(s) == [k \in 1..Len(s) |-> s[Len(s) + 1 - k]]

\* the index in rows of the row Array.prototype.find returns on the reversed
\* rows: the first row of the reversed sequence that satisfies the test; 0 if none
RECURSIVE FindFrom(_, _, _)
FindFrom(rev, isbn, k) ==
    IF k > Len(rev) THEN 0
    ELSE IF rev[k].isbn = isbn /\ rev[k].returnedAt = <<>> THEN k
    ELSE FindFrom(rev, isbn, k + 1)

\* find without the reverse: the oldest open loan of the ISBN
FindTargetRowOldest(rows, isbn) == FindFrom(rows, isbn, 1)

\* find without the test of returnedAt: the newest loan of the ISBN, open or not
FindTargetRowAnyLoan(rows, isbn) ==
    LET same == { k \in 1..Len(rows) : rows[k].isbn = isbn }
    IN  IF same = {} THEN 0 ELSE CHOOSE k \in same : \A j \in same : j <= k

FindTargetRow(rows, isbn) ==
    LET k == FindFrom(Reverse(rows), isbn, 1)
    IN  IF k = 0 THEN 0 ELSE Len(rows) + 1 - k

\* Array.prototype.join(', ')
RECURSIVE Join(_)
Join(list) ==
    IF list = <<>> THEN <<>>
    ELSE IF Len(list) = 1 THEN list[1]
    ELSE list[1] \o <<",", " ">> \o Join(Tail(list))

\* title || 'タイトル不明', name || '氏名不明'
TitleOr(title) == IF title = "" THEN "title unknown" ELSE title
NameOr(name) == IF name = "" THEN "name unknown" ELSE name

\* sendSlackNotification: nothing without SLACK_WEBHOOK_URL, else one POST
SlackAfter(type, title, borrowerName, date, dueAt) ==
    IF env.slackUrl
    THEN Append(slack, [type |-> type, title |-> title, borrowerName |-> borrowerName,
                        date |-> date, dueAt |-> dueAt])
    ELSE slack

\* whether the POST to the webhook succeeds, when one is made
SlackOutcomes == IF env.slackUrl THEN BOOLEAN ELSE {TRUE}

\* what sendSlackNotification logs: the error of a failed POST, caught
SlackLog(slackOk) == IF env.slackUrl /\ ~slackOk THEN "Slack Notification Error" ELSE ""

\* a handler in which a failed POST to the webhook reaches the handler's catch
NotifiedOrFailed(slackOk, response) ==
    IF env.slackUrl /\ ~slackOk
    THEN [op |-> response.op, isbn |-> response.isbn, status |-> 500,
          log |-> "Slack Notification Error", data |-> <<>>]
    ELSE response

\* await sendSlackNotification(...) and the return after it: the try around the
\* POST to the webhook catches its failure, so the handler answers as it would
\* have, with the failure logged
Notified(slackOk, response) == [response EXCEPT !.log = SlackLog(slackOk)]

\* how the spreadsheet answers one request: every call succeeds, a read
\* (loadInfo, getRows) throws, or the write (addRow, save) throws
StoreOutcomes == {"ok", "readFails", "writeFails"}

\* the instants a second new Date() may return after one that returned the clock
NextReadings == {clock} \cup ({clock + 1} \cap Instants)

-----------------------------------------------------------------------------
(* POST /api/lending: borrow *)

\* today = new Date(); twoWeeksLater = new Date();
\* twoWeeksLater.setDate(today.getDate() + 14), today read at t1, twoWeeksLater at t2
TwoWeeksLater(t1, t2) == SetDate(t2, GetDate(t1, env.tz) + 14, env.tz)

LoanRow(session, body, t1, t2) ==
    [id |-> UuidV4(ledger),
     isbn |-> body.isbn,
     title |-> TitleOr(body.title),
     borrowedAt |-> getJstDateString(t1),
     dueAt |-> getJstDateString(TwoWeeksLater(t1, t2)),
     borrowerName |-> NameOr(session.name),
     borrowerEmail |-> session.email,
     borrowerGroup |-> body.borrowerGroup,
     returnedAt |-> <<>>]

LendingPOST(session, body) ==
    LET fails(status, log) ==
            /\ resp' = Response("borrow", body.isbn, status, log, <<>>)
            /\ UNCHANGED <<fetched, env, clock, catalog, ledger, slack, mail>>
    IN  IF session.email = "" THEN fails(401, "")
        ELSE IF ~body.ok THEN fails(500, "Lending Error")
        ELSE IF body.isbn = <<>> \/ body.borrowerGroup = "" THEN fails(400, "")
        ELSE IF ~env.sheet THEN fails(500, "Lending Error")
        ELSE \E store \in StoreOutcomes :
             IF store = "readFails" THEN fails(500, "Lending Error")
             ELSE \E t2 \in NextReadings :
                  LET newRow == LoanRow(session, body, clock, t2)
                  IN  IF store = "writeFails"
                      THEN /\ resp' = Response("borrow", body.isbn, 500,
                                               "Lending Error: addRow", <<>>)
                           /\ clock' = t2
                           /\ UNCHANGED <<fetched, env, catalog, ledger, slack, mail>>
                      ELSE /\ Len(ledger) < MaxLoans
                           /\ ledger' = Append(ledger, newRow)
                           /\ slack' = SlackAfter("borrow", newRow.title, newRow.borrowerName,
                                                  newRow.borrowedAt, newRow.dueAt)
                           /\ \E slackOk \in SlackOutcomes :
                                 resp' = Notified(slackOk, Response("borrow", body.isbn, 200, "",
                                                                    <<newRow>>))
                           /\ clock' = t2
                           /\ UNCHANGED <<fetched, env, catalog, mail>>

-----------------------------------------------------------------------------
(* PUT /api/lending: return *)

\* a return that posts its Slack message before it saves the row
LendingPUTNotifyingFirst(body) ==
    LET k == FindTargetRow(ledger, body.isbn)
    IN  IF body.ok /\ body.isbn # <<>> /\ env.sheet /\ k # 0
        THEN /\ slack' = SlackAfter("return", TitleOr(ledger[k].title),
                                    NameOr(ledger[k].borrowerName),
                                    getJstDateString(clock), <<>>)
             /\ resp' = Response("return", body.isbn, 500, "Returning Error: save", <<>>)
             /\ UNCHANGED <<fetched, env, clock, catalog, ledger, mail>>
        ELSE /\ resp' = Response("return", body.isbn, 400, "", <<>>)
             /\ UNCHANGED <<fetched, env, clock, catalog, ledger, slack, mail>>

LendingPUT(body) ==
    LET k == FindTargetRow(ledger, body.isbn)
        returnedAt == getJstDateString(clock)
        fails(status, log) ==
            /\ resp' = Response("return", body.isbn, status, log, <<>>)
            /\ UNCHANGED <<fetched, env, clock, catalog, ledger, slack, mail>>
    IN  IF ~body.ok THEN fails(500, "Returning Error")
        ELSE IF body.isbn = <<>> THEN fails(400, "")
        ELSE IF ~env.sheet THEN fails(500, "Returning Error")
        ELSE \E store \in StoreOutcomes :
             IF store = "readFails" THEN fails(500, "Returning Error")
             ELSE IF k = 0 THEN fails(404, "")
             ELSE IF store = "writeFails" THEN fails(500, "Returning Error: save")
             ELSE /\ ledger' = [ledger EXCEPT ![k].returnedAt = returnedAt]
                  /\ slack' = SlackAfter("return", TitleOr(ledger[k].title),
                                         NameOr(ledger[k].borrowerName), returnedAt, <<>>)
                  /\ \E slackOk \in SlackOutcomes :
                        resp' = Notified(slackOk,
                                    Response("return", body.isbn, 200, "",
                                             <<[title |-> TitleOr(ledger[k].title),
                                                borrower |-> NameOr(ledger[k].borrowerName)]>>))
                  /\ UNCHANGED <<fetched, env, clock, catalog, mail>>

-----------------------------------------------------------------------------
(* POST /api/lending as src/app/api/lending/route.ts keeps it: the borrower's *)
(* name comes from the body, no session is read, no borrowerEmail is written  *)

LegacyLoanRow(body, t1, t2) ==
    [id |-> UuidV4(ledger),
     isbn |-> body.isbn,
     title |-> TitleOr(body.title),
     borrowedAt |-> getJstDateString(t1),
     dueAt |-> getJstDateString(TwoWeeksLater(t1, t2)),
     borrowerName |-> body.borrowerName,
     borrowerEmail |-> "",
     borrowerGroup |-> body.borrowerGroup,
     returnedAt |-> <<>>]

LegacyLendingPOST(body) ==
    LET fails(status, log) ==
            /\ resp' = Response("legacyBorrow", body.isbn, status, log, <<>>)
            /\ UNCHANGED <<fetched, env, clock, catalog, ledger, slack, mail>>
    IN  IF ~body.ok THEN fails(500, "Lending Error")
        ELSE IF body.isbn = <<>> \/ body.borrowerName = "" \/ body.borrowerGroup = ""
        THEN fails(400, "")
        ELSE IF ~env.sheet THEN fails(500, "Lending Error")
        ELSE \E store \in StoreOutcomes :
             IF store = "readFails" THEN fails(500, "Lending Error")
             ELSE \E t2 \in NextReadings :
                  LET newRow == LegacyLoanRow(body, clock, t2)
                  IN  IF store = "writeFails"
                      THEN /\ resp' = Response("legacyBorrow", body.isbn, 500,
                                               "Lending Error: addRow", <<>>)
                           /\ clock' = t2
                           /\ UNCHANGED <<fetched, env, catalog, ledger, slack, mail>>
                      ELSE /\ Len(ledger) < MaxLoans
                           /\ ledger' = Append(ledger, newRow)
                           /\ resp' = Response("legacyBorrow", body.isbn, 200, "", <<newRow>>)
                           /\ clock' = t2
                           /\ UNCHANGED <<fetched, env, catalog, slack, mail>>

-----------------------------------------------------------------------------
(* GET of the reminder route: mails for the loans due in two days *)

\* targetDate.setDate(today.getDate() + 2), today read at t1, targetDate at t2
TargetDate(t1, t2) == SetDate(t2, GetDate(t1, env.tz) + 2, env.tz)

\* rows.filter(row => !row.get('returnedAt') && row.get('dueAt') === date): the
\* indices of the rows kept, in order
SweepTargets(rows, date) ==
    SelectSeq([k \in 1..Len(rows) |-> k],
              LAMBDA k : rows[k].returnedAt = <<>> /\ rows[k].dueAt = date)

\* CRON_SECRET && authHeader ! == `Bearer ${CRON_SECRET}`: TypeScript reads the
\* "!" as a non-null assertion on authHeader and the "==" as the comparison
IsRejected(authHeader) == env.cronSecret /\ authHeader = "Bearer secret"

\* the loop over targets: rows without borrowerEmail are skipped, and the mail
\* number failAt (0: none) is the one sendMail throws on, which ends the loop
MailsSent(rows, targets, failAt) ==
    LET withEmail == SelectSeq(targets, LAMBDA k : rows[k].borrowerEmail # "")
        last == IF failAt = 0 THEN Len(withEmail) ELSE failAt
    IN  [j \in 1..last |->
            [to |-> rows[withEmail[j]].borrowerEmail,
             title |-> rows[withEmail[j]].title,
             dueAt |-> rows[withEmail[j]].dueAt,
             ok |-> j # failAt]]

ReminderGET(authHeader) ==
    LET fails(status, log) ==
            /\ resp' = Response("sweep", <<>>, status, log, <<>>)
            /\ mail' = <<>>
            /\ UNCHANGED <<fetched, env, clock, catalog, ledger, slack>>
    IN  IF IsRejected(authHeader) THEN fails(401, "")
        ELSE IF ~env.sheet \/ ~env.gmail THEN fails(500, "")
        ELSE \E store \in StoreOutcomes \ {"writeFails"} :
             IF store = "readFails" THEN fails(500, "Reminder Error")
             ELSE \E t2 \in NextReadings :
                  LET date == getJstDateString(TargetDate(clock, t2))
                      targets == SweepTargets(ledger, date)
                      withEmail == SelectSeq(targets, LAMBDA k : ledger[k].borrowerEmail # "")
                  IN  \E failAt \in 0..Len(withEmail) :
                         LET sent == MailsSent(ledger, targets, failAt)
                         IN  /\ mail' = sent
                             /\ resp' =
                                   IF failAt # 0
                                   THEN Response("sweep", <<>>, 500, "Reminder Error", <<>>)
                                   ELSE Response("sweep", <<>>, 200, "",
                                            <<[date |-> date,
                                               targets |-> [j \in 1..Len(targets) |->
                                                               ledger[targets[j]].id],
                                               results |-> [j \in 1..Len(sent) |->
                                                               [email |-> sent[j].to,
                                                                title |-> sent[j].title]]]>>)
                             /\ clock' = t2
                             /\ UNCHANGED <<fetched, env, catalog, ledger, slack>>

-----------------------------------------------------------------------------
(* GET /api/books/list: the catalog joined with the open loans *)

\* a map in which the first open loan visited for an isbn is kept
RECURSIVE LendingMapKeepingFirst(_, _, _)
LendingMapKeepingFirst(rows, k, map) ==
    IF k > Len(rows) THEN map
    ELSE LET row == rows[k]
             info == [dueAt |-> row.dueAt, borrowerName |-> row.borrowerName]
         IN  IF row.isbn # <<>> /\ row.returnedAt = <<>> /\ row.isbn \notin DOMAIN map
             THEN LendingMapKeepingFirst(rows, k + 1,
                      [i \in DOMAIN map \cup {row.isbn} |->
                          IF i = row.isbn THEN info ELSE map[i]])
             ELSE LendingMapKeepingFirst(rows, k + 1, map)

\* transactionRows.forEach(row => { if (isbn && !returnedAt) lendingMap.set(...) }):
\* the map after the rows from index k on were visited, starting from map
RECURSIVE LendingMapFrom(_, _, _)
LendingMapFrom(rows, k, map) ==
    IF k > Len(rows) THEN map
    ELSE LET row == rows[k]
             info == [dueAt |-> row.dueAt, borrowerName |-> row.borrowerName]
         IN  IF row.isbn # <<>> /\ row.returnedAt = <<>>
             THEN LendingMapFrom(rows, k + 1,
                      [i \in DOMAIN map \cup {row.isbn} |->
                          IF i = row.isbn THEN info ELSE map[i]])
             ELSE LendingMapFrom(rows, k + 1, map)

\* a map that keeps the loans already returned as well
LendingMapOfAllLoans(rows) ==
    LendingMapFrom([k \in 1..Len(rows) |-> [rows[k] EXCEPT !.returnedAt = <<>>]], 1, <<>>)

LendingMap(rows) == LendingMapFrom(rows, 1, <<>>)

\* inventoryRows.map(row => ({...})); lendingDetail is <<>> for null
BookStatus(row, map) ==
    [isbn |-> row.isbn,
     title |-> row.title,
     authors |-> row.authors,
     thumbnailUrl |-> row.image,
     status |-> IF row.isbn \in DOMAIN map THEN "lent" ELSE "available",
     lendingDetail |-> IF row.isbn \in DOMAIN map THEN <<map[row.isbn]>> ELSE <<>>]

\* the body of the 200 response: books.reverse()
ListBooks(inventoryRows, transactionRows) ==
    LET map == LendingMap(transactionRows)
    IN  Reverse([k \in 1..Len(inventoryRows) |-> BookStatus(inventoryRows[k], map)])

BookListGET(session) ==
    /\ IF ~session.present THEN resp' = Response("list", <<>>, 401, "", <<>>)
       ELSE IF ~env.sheet THEN resp' = Response("list", <<>>, 500, "", <<>>)
       ELSE \E store \in StoreOutcomes \ {"writeFails"} :
            resp' = IF store = "readFails"
                    THEN Response("list", <<>>, 500, "Book List API Error", <<>>)
                    ELSE Response("list", <<>>, 200, "", ListBooks(catalog, ledger))
    /\ UNCHANGED <<fetched, env, clock, catalog, ledger, slack, mail>>

-----------------------------------------------------------------------------
(* POST /api/register *)

\* the row registered from body at instant t, rows being the sheet's rows
CatalogRow(body, rows, t) ==
    [id |-> UuidV4(rows),
     isbn |-> body.isbn,
     title |-> body.title,
     authors |-> IF body.isArray THEN Join(body.authorList) ELSE body.authorText,
     publishedDate |-> body.publishedDate,
     image |-> body.thumbnailUrl,
     status |-> "available",
     registeredAt |-> t]

\* a check that never finds the ISBN
IsDuplicateNever(rows, isbn) == FALSE

\* rows.some(row => row.get('isbn') === isbn)
IsDuplicate(rows, isbn) == \E k \in 1..Len(rows) : rows[k].isbn = isbn

RegisterPOST(body) ==
    LET newRow == CatalogRow(body, catalog, clock)
        fails(status, log) ==
            /\ resp' = Response("register", body.isbn, status, log, <<>>)
            /\ UNCHANGED <<fetched, env, clock, catalog, ledger, slack, mail>>
    IN  IF ~env.sheet \/ ~body.ok THEN fails(500, "Spreadsheet Error")
        ELSE IF body.isbn = <<>> \/ body.title = "" THEN fails(400, "")
        ELSE \E store \in StoreOutcomes :
             IF store = "readFails" THEN fails(500, "Spreadsheet Error")
             ELSE IF IsDuplicate(catalog, body.isbn) THEN fails(409, "")
             ELSE IF store = "writeFails" THEN fails(500, "Spreadsheet Error: addRow")
             ELSE /\ Len(catalog) < MaxBooks
                  /\ catalog' = Append(catalog, newRow)
                  /\ resp' = Response("register", body.isbn, 200, "", <<newRow>>)
                  /\ UNCHANGED <<fetched, env, clock, ledger, slack, mail>>

-----------------------------------------------------------------------------
(* GET /api/books: metadata lookup, against the catalog or the providers *)

\* retries after the first attempt
MAX_RETRIES == 1

\* what one call of fetch does: it is aborted at the timeout, fails in transport,
\* answers a non-OK status, answers OK with no match (no items, or [null]),
\* answers OK with a body that cannot be read as a volume, or answers OK with a
\* volume, complete ("data") or with every optional field missing ("bare")
FetchOutcomes == {"timeout", "error", "notOk", "noMatch", "badBody", "data", "bare"}

\* a fetch that also throws on an answer carrying no match
ThrowsOnNoMatch(outcome) == outcome \in {"timeout", "error", "notOk", "noMatch"}

\* the outcomes on which fetch throws
Throws(outcome) == outcome \in {"timeout", "error"}

\* how a provider behaves during one lookup: the outcome of the first, second
\* and third call made to it
Scripts ==
    { <<"data", "data", "data">>,
      <<"bare", "data", "data">>,
      <<"noMatch", "data", "data">>,
      <<"notOk", "data", "data">>,
      <<"badBody", "data", "data">>,
      <<"timeout", "data", "data">>,
      <<"error", "noMatch", "data">>,
      <<"timeout", "timeout", "data">> }

\* identifiers as they arrive in ?isbn=; <<>> is a missing or empty parameter
RawIsbns == { <<>>, ISBN1, <<"9", "-", "1">>, ISBN2, <<"-">> }

\* rawIsbn.replace(/[^0-9X]/g, '')
IsIsbnChar(c) == c \in {"0", "1", "2", "3", "4", "5", "6", "7", "8", "9", "X"}
NormalizeIsbn(raw) == SelectSeq(raw, IsIsbnChar)

\* String.prototype.split(sep): the pieces of text between the separators
RECURSIVE SplitFrom(_, _, _, _)
SplitFrom(text, sep, k, piece) ==
    IF k > Len(text) THEN <<piece>>
    ELSE IF text[k] = sep THEN <<piece>> \o SplitFrom(text, sep, k + 1, <<>>)
    ELSE SplitFrom(text, sep, k + 1, Append(piece, text[k]))

Split(text, sep) == SplitFrom(text, sep, 1, <<>>)

\* a || b on an optional field: <<>> is a missing field, <<v>> one holding v
OrElse(field, default) == IF field = <<>> THEN default ELSE field[1]

\* fetchWithRetry: the outcomes of the calls made, from attempt i (counted from 0)
\* on; it returns the first response, and throws after the last failed attempt
RECURSIVE FetchWithRetryFrom(_, _)
FetchWithRetryFrom(script, i) ==
    IF i > MAX_RETRIES THEN <<>>
    ELSE IF Throws(script[i + 1]) THEN <<script[i + 1]>> \o FetchWithRetryFrom(script, i + 1)
    ELSE <<script[i + 1]>>

\* a loop that retries twice after the first attempt
FetchRetryingTwice(script) ==
    IF ~Throws(script[1]) THEN <<script[1]>>
    ELSE IF ~Throws(script[2]) THEN <<script[1], script[2]>>
    ELSE script

FetchWithRetry(script) == FetchWithRetryFrom(script, 0)

\* the calls of one provider as entries of fetched
CallsTo(provider, outcomes) ==
    [k \in 1..Len(outcomes) |-> [provider |-> provider, outcome |-> outcomes[k]]]

\* data.items[0].volumeInfo of a Google Books answer
VolumeInfo(outcome) ==
    IF outcome = "data"
    THEN [title |-> <<"Found Title">>, authors |-> <<<< <<"A">>, <<"B">> >>>>,
          publishedDate |-> <<"2020">>, thumbnail |-> <<"g.png">>]
    ELSE [title |-> <<>>, authors |-> <<>>, publishedDate |-> <<>>, thumbnail |-> <<>>]

\* json[0].summary of an OpenBD answer; author is one string, names spaced
Summary(outcome) ==
    IF outcome = "data"
    THEN [title |-> <<"Found Title">>, author |-> << <<"A", " ", "B">> >>,
          pubdate |-> <<"2020">>, cover |-> <<"o.png">>]
    ELSE [title |-> <<>>, author |-> <<>>, pubdate |-> <<>>, cover |-> <<>>]

\* fetchFromGoogleBooks: the calls made and the book found, <<>> for null
FetchFromGoogleBooks(isbn, script) ==
    LET made == FetchWithRetry(script)
        last == made[Len(made)]
        info == VolumeInfo(last)
    IN  [calls |-> CallsTo("GoogleBooks", made),
         log |-> IF last \in {"timeout", "error", "badBody"}
                 THEN "Google Books API Error" ELSE "",
         book |-> IF last \in {"data", "bare"}
                  THEN <<[isbn |-> isbn,
                          title |-> OrElse(info.title, "title unknown"),
                          authors |-> OrElse(info.authors, << <<"author unknown">> >>),
                          publishedDate |-> OrElse(info.publishedDate, ""),
                          thumbnailUrl |-> OrElse(info.thumbnail, ""),
                          source |-> "GoogleBooks"]>>
                  ELSE <<>>]

\* fetchFromOpenBD
FetchFromOpenBD(isbn, script) ==
    LET made == FetchWithRetry(script)
        last == made[Len(made)]
        summary == Summary(last)
    IN  [calls |-> CallsTo("OpenBD", made),
         log |-> IF last \in {"timeout", "error", "badBody"}
                 THEN "OpenBD API Error" ELSE "",
         book |-> IF last \in {"data", "bare"}
                  THEN <<[isbn |-> isbn,
                          title |-> OrElse(summary.title, "title unknown"),
                          authors |-> IF summary.author = <<>>
                                      THEN << <<"author unknown">> >>
                                      ELSE Split(summary.author[1], " "),
                          publishedDate |-> OrElse(summary.pubdate, ""),
                          thumbnailUrl |-> OrElse(summary.cover, ""),
                          source |-> "OpenBD"]>>
                  ELSE <<>>]

\* a chain that asks OpenBD first and Google Books only as the fallback
DiscoverOpenBDFirst(isbn, googleScript, openbdScript) ==
    LET first == FetchFromOpenBD(isbn, openbdScript)
        second == FetchFromGoogleBooks(isbn, googleScript)
    IN  IF first.book # <<>> THEN first
        ELSE [calls |-> first.calls \o second.calls, log |-> second.log,
              book |-> second.book]

\* a chain that asks OpenBD whatever Google Books answered
DiscoverAskingBoth(isbn, googleScript, openbdScript) ==
    LET first == FetchFromGoogleBooks(isbn, googleScript)
        second == FetchFromOpenBD(isbn, openbdScript)
    IN  [calls |-> first.calls \o second.calls, log |-> second.log,
         book |-> IF first.book # <<>> THEN first.book ELSE second.book]

\* the fallback chain of GET: Google Books, then OpenBD if that gave no book
Discover(isbn, googleScript, openbdScript) ==
    LET first == FetchFromGoogleBooks(isbn, googleScript)
        second == FetchFromOpenBD(isbn, openbdScript)
    IN  IF first.book # <<>> THEN first
        ELSE [calls |-> first.calls \o second.calls, log |-> second.log,
              book |-> second.book]

\* a search that takes the first catalog row, whatever its isbn
FetchFromInventoryAnyRow(isbn, store) ==
    IF ~env.sheet \/ store = "readFails" \/ catalog = <<>>
    THEN [log |-> "", book |-> <<>>]
    ELSE [log |-> "",
          book |-> <<[isbn |-> catalog[1].isbn,
                      title |-> catalog[1].title,
                      authors |-> <<>>,
                      publishedDate |-> catalog[1].publishedDate,
                      thumbnailUrl |-> catalog[1].image,
                      source |-> "Inventory"]>>]

\* fetchFromInventory: the book of the first catalog row with this isbn, the
\* error logged, if any
FetchFromInventory(isbn, store) ==
    LET same == { k \in 1..Len(catalog) : catalog[k].isbn = isbn }
        row == catalog[CHOOSE k \in same : \A j \in same : k <= j]
    IN  IF ~env.sheet THEN [log |-> "Environment variables missing", book |-> <<>>]
        ELSE IF store = "readFails" THEN [log |-> "Inventory Search Error", book |-> <<>>]
        ELSE IF same = {} THEN [log |-> "", book |-> <<>>]
        ELSE [log |-> "",
              book |-> <<[isbn |-> row.isbn,
                          title |-> row.title,
                          authors |-> IF row.authors = <<>> THEN <<>>
                                      ELSE Split(row.authors, ","),
                          publishedDate |-> row.publishedDate,
                          thumbnailUrl |-> row.image,
                          source |-> "Inventory"]>>]

BooksGET(rawIsbn, type) ==
    /\ IF rawIsbn = <<>>
       THEN /\ resp' = Response(type, rawIsbn, 400, "", <<>>)
            /\ fetched' = <<>>
       ELSE LET isbn == NormalizeIsbn(rawIsbn)
            IN  IF type = "inventory"
                THEN /\ \E store \in StoreOutcomes \ {"writeFails"} :
                          LET found == FetchFromInventory(isbn, store)
                          IN  resp' = Response(type, rawIsbn,
                                               IF found.book # <<>> THEN 200 ELSE 404,
                                               found.log, found.book)
                     /\ fetched' = <<>>
                ELSE \E googleScript \in Scripts, openbdScript \in Scripts :
                        LET found == Discover(isbn, googleScript, openbdScript)
                        IN  /\ resp' = Response(type, rawIsbn,
                                                IF found.book # <<>> THEN 200 ELSE 404,
                                                found.log, found.book)
                            /\ fetched' = found.calls
    /\ UNCHANGED <<env, clock, catalog, ledger, slack, mail>>

-----------------------------------------------------------------------------
(* GET /api/books in discovery mode, step by step: the request is in flight   *)
(* while the handler awaits its providers                                     *)

\* fetchWithTimeout clears its timer when fetch resolves with the response
\* headers, so nothing aborts the read of the body: "stalled" is an OK response
\* whose body never ends, and await res.json() on it never resolves
StallingScripts ==
    Scripts \cup { <<"stalled", "data", "data">>,
                   <<"timeout", "stalled", "data">>,
                   <<"error", "error", "stalled">> }

\* the provider call at which the handler stays suspended, if there is one
Stalls(googleScript, openbdScript) ==
    LET google == FetchWithRetry(googleScript)
        openbd == FetchWithRetry(openbdScript)
    IN  \/ google[Len(google)] = "stalled"
        \/ /\ FetchFromGoogleBooks(<<>>, googleScript).book = <<>>
           /\ openbd[Len(openbd)] = "stalled"

\* GET up to its first await of a provider
DiscoveryBegins(caller, rawIsbn) ==
    /\ inflight[caller] = Idle
    /\ IF rawIsbn = <<>>
       THEN /\ resp' = Response("discovery", rawIsbn, 400, "", <<>>)
            /\ fetched' = <<>>
            /\ UNCHANGED inflight
       ELSE /\ \E googleScript \in StallingScripts, openbdScript \in StallingScripts :
                  inflight' = [inflight EXCEPT ![caller] =
                                  [op |-> "discovery",
                                   body |-> [rawIsbn |-> rawIsbn, google |-> googleScript,
                                             openbd |-> openbdScript],
                                   rows |-> <<>>]]
            /\ UNCHANGED <<resp, fetched>>
    /\ UNCHANGED <<env, clock, catalog, ledger, slack, mail, page>>

\* GET from the moment every await of a provider has resolved or thrown
DiscoveryReturns(caller) ==
    LET call == inflight[caller]
        found == Discover(NormalizeIsbn(call.body.rawIsbn), call.body.google,
                          call.body.openbd)
    IN  /\ call.op = "discovery"
        /\ ~Stalls(call.body.google, call.body.openbd)
        /\ resp' = Response("discovery", call.body.rawIsbn,
                            IF found.book # <<>> THEN 200 ELSE 404, found.log, found.book)
        /\ fetched' = found.calls
        /\ inflight' = [inflight EXCEPT ![caller] = Idle]
        /\ UNCHANGED <<env, clock, catalog, ledger, slack, mail, page>>

-----------------------------------------------------------------------------
(* The middleware in front of the pages *)

\* String.prototype.startsWith
StartsWith(text, prefix) ==
    Len(text) >= Len(prefix) /\ SubSeq(text, 1, Len(prefix)) = prefix

\* config.matcher, "/((?!api|_next/static|_next/image|favicon.ico|login).*)": the
\* paths the middleware runs on
ExcludedPrefixes ==
    { <<"a", "p", "i">>,
      <<"_", "n", "e", "x", "t", "/", "s", "t", "a", "t", "i", "c">>,
      <<"_", "n", "e", "x", "t", "/", "i", "m", "a", "g", "e">>,
      <<"f", "a", "v", "i", "c", "o", "n", ".", "i", "c", "o">>,
      <<"l", "o", "g", "i", "n">> }

Matcher(pathname) ==
    /\ pathname # <<>> /\ pathname[1] = "/"
    /\ \A prefix \in ExcludedPrefixes : ~StartsWith(Tail(pathname), prefix)

\* adminEmails = (process.env.ADMIN_EMAILS || "").split(","): the pieces, each
\* the characters and addresses between two commas
AdminEmails == Split(env.adminEmails, ",")

\* a middleware that lets every logged-in user through
MiddlewareForAnyUser(pathname, token) ==
    IF ~Matcher(pathname) THEN "next"
    ELSE IF ~token.present THEN "redirect /login"
    ELSE "next"

\* withAuth(middleware, {authorized: ({token}) => !!token, signIn: "/login"}) on
\* the paths of the matcher: what the request is answered with
Middleware(pathname, token) ==
    IF ~Matcher(pathname) THEN "next"
    ELSE IF ~token.present THEN "redirect /login"
    ELSE IF /\ StartsWith(pathname, <<"/", "a", "d", "m", "i", "n">>)
            /\ \/ token.email = ""
               \/ \A k \in 1..Len(AdminEmails) : AdminEmails[k] # <<token.email>>
    THEN "redirect /user"
    ELSE "next"

PageRequest(pathname, token) ==
    /\ resp' = Response("page", <<>>, 0, "",
                        <<[pathname |-> pathname, token |-> token,
                           answer |-> Middleware(pathname, token)]>>)
    /\ UNCHANGED <<fetched, env, clock, catalog, ledger, slack, mail>>

-----------------------------------------------------------------------------
(* POST /api/register and PUT /api/lending, step by step: a handler reads the *)
(* sheet at its await of getRows and writes at its await of addRow or save,   *)
(* and other requests are served between the two                              *)

\* POST /api/register up to the rows that getRows resolved with
RegisterGetRows(caller, body) ==
    LET fails(status, log) ==
            /\ resp' = Response("register", body.isbn, status, log, <<>>)
            /\ UNCHANGED inflight
    IN  /\ inflight[caller] = Idle
        /\ IF ~env.sheet \/ ~body.ok THEN fails(500, "Spreadsheet Error")
           ELSE IF body.isbn = <<>> \/ body.title = "" THEN fails(400, "")
           ELSE \E store \in StoreOutcomes \ {"writeFails"} :
                IF store = "readFails" THEN fails(500, "Spreadsheet Error")
                ELSE /\ inflight' = [inflight EXCEPT ![caller] =
                                        [op |-> "register", body |-> body, rows |-> catalog]]
                     /\ UNCHANGED resp
        /\ UNCHANGED <<fetched, env, clock, catalog, ledger, slack, mail, page>>

\* a register that looks for the ISBN once more in the sheet as it is at the write
RegisterAddRowChecking(caller) ==
    LET call == inflight[caller]
    IN  /\ call.op = "register"
        /\ inflight' = [inflight EXCEPT ![caller] = Idle]
        /\ IF IsDuplicate(call.rows, call.body.isbn) \/ IsDuplicate(catalog, call.body.isbn)
           THEN /\ resp' = Response("register", call.body.isbn, 409, "", <<>>)
                /\ UNCHANGED catalog
           ELSE /\ Len(catalog) < MaxBooks
                /\ catalog' = Append(catalog, CatalogRow(call.body, catalog, clock))
                /\ resp' = Response("register", call.body.isbn, 200, "",
                                    <<CatalogRow(call.body, catalog, clock)>>)
        /\ UNCHANGED <<fetched, env, clock, ledger, slack, mail, page>>

\* POST /api/register from the duplicate check on the rows that were read to the
\* response; the identifier is one no row of the sheet carries at the write
RegisterAddRow(caller) ==
    LET call == inflight[caller]
        newRow == CatalogRow(call.body, catalog, clock)
        fails(status, log) ==
            /\ resp' = Response("register", call.body.isbn, status, log, <<>>)
            /\ UNCHANGED catalog
    IN  /\ call.op = "register"
        /\ inflight' = [inflight EXCEPT ![caller] = Idle]
        /\ IF IsDuplicate(call.rows, call.body.isbn) THEN fails(409, "")
           ELSE \E store \in StoreOutcomes \ {"readFails"} :
                IF store = "writeFails" THEN fails(500, "Spreadsheet Error: addRow")
                ELSE /\ Len(catalog) < MaxBooks
                     /\ catalog' = Append(catalog, newRow)
                     /\ resp' = Response("register", call.body.isbn, 200, "", <<newRow>>)
        /\ UNCHANGED <<fetched, env, clock, ledger, slack, mail, page>>

\* PUT /api/lending up to the rows that getRows resolved with
ReturnGetRows(caller, body) ==
    LET fails(status, log) ==
            /\ resp' = Response("return", body.isbn, status, log, <<>>)
            /\ UNCHANGED inflight
    IN  /\ inflight[caller] = Idle
        /\ IF ~body.ok THEN fails(500, "Returning Error")
           ELSE IF body.isbn = <<>> THEN fails(400, "")
           ELSE IF ~env.sheet THEN fails(500, "Returning Error")
           ELSE \E store \in StoreOutcomes \ {"writeFails"} :
                IF store = "readFails" THEN fails(500, "Returning Error")
                ELSE /\ inflight' = [inflight EXCEPT ![caller] =
                                        [op |-> "return", body |-> body, rows |-> ledger]]
                     /\ UNCHANGED resp
        /\ UNCHANGED <<fetched, env, clock, catalog, ledger, slack, mail, page>>

\* PUT /api/lending from the search in the rows that were read to the response:
\* save() writes the row object that was read, with its returnedAt assigned
ReturnSave(caller) ==
    LET call == inflight[caller]
        k == FindTargetRow(call.rows, call.body.isbn)
        returnedAt == getJstDateString(clock)
        fails(status, log) ==
            /\ resp' = Response("return", call.body.isbn, status, log, <<>>)
            /\ UNCHANGED <<ledger, slack>>
    IN  /\ call.op = "return"
        /\ inflight' = [inflight EXCEPT ![caller] = Idle]
        /\ IF k = 0 THEN fails(404, "")
           ELSE \E store \in StoreOutcomes \ {"readFails"} :
                IF store = "writeFails" THEN fails(500, "Returning Error: save")
                ELSE /\ ledger' = [ledger EXCEPT
                                      ![k] = [call.rows[k] EXCEPT !.returnedAt = returnedAt]]
                     /\ slack' = SlackAfter("return", TitleOr(call.rows[k].title),
                                            NameOr(call.rows[k].borrowerName),
                                            returnedAt, <<>>)
                     /\ \E slackOk \in SlackOutcomes :
                           resp' = Notified(slackOk,
                                       Response("return", call.body.isbn, 200, "",
                                                <<[title |-> TitleOr(call.rows[k].title),
                                                   borrower |->
                                                       NameOr(call.rows[k].borrowerName)]>>))
        /\ UNCHANGED <<fetched, env, clock, catalog, mail, page>>

-----------------------------------------------------------------------------
(* The user page: UserPage and the BarcodeScanner it mounts on the scan step. *)
(* An async handler is followed in two steps, split at its await of fetch;    *)
(* the step that completes it includes the route handler serving the request. *)

\* the barcodes a user may hold in front of the camera
Barcodes == {ISBN1, ISBN2}

\* a BarcodeScanner after its effect ran: isScannedRef, whether the camera scan
\* is paused, and the loading of the render whose handleDetected the effect
\* captured (its book is null: every change to the scan step sets it so)
Mounted == [isScanned |-> FALSE, paused |-> FALSE, loading |-> page.loading]

handleSelectMode(selectedMode) ==
    /\ page.step = "select"
    /\ page' = [page EXCEPT !.mode = selectedMode, !.step = "scan", !.error = "",
                            !.message = "", !.book = <<>>, !.scanner = <<Mounted>>]
    /\ UNCHANGED <<fetched, env, clock, catalog, ledger, slack, mail, resp, inflight>>

\* handleDetected up to its await of fetch, as the mounted scanner calls it
DetectedBy(scanner, code) ==
    IF scanner.loading THEN page
    ELSE [page EXCEPT !.loading = TRUE, !.lookup = <<code>>]

\* the success callback of html5QrCode.start: only the first decoded text of a
\* scanner goes on to onDetected, and the scan is paused from then on
Decoded(code) ==
    LET scanner == page.scanner[1]
    IN  IF scanner.isScanned THEN page
        ELSE [DetectedBy(scanner, code) EXCEPT
                 !.scanner = <<[scanner EXCEPT !.isScanned = TRUE, !.paused = TRUE]>>]

\* a barcode comes in front of the camera; a scanner that is mounted and not
\* paused decodes it
ShowBarcode(code) ==
    /\ page.camera = <<>>
    /\ page' = [(IF page.scanner # <<>> /\ ~page.scanner[1].paused
                 THEN Decoded(code) ELSE page)
                EXCEPT !.camera = <<code>>]
    /\ UNCHANGED <<fetched, env, clock, catalog, ledger, slack, mail, resp, inflight>>

HideBarcode ==
    /\ page.camera # <<>>
    /\ page' = [page EXCEPT !.camera = <<>>]
    /\ UNCHANGED <<fetched, env, clock, catalog, ledger, slack, mail, resp, inflight>>

\* handleDetected from the response of its fetch on: GET /api/books?type=inventory
\* serves the request; leaving the scan step unmounts the scanner
handleDetected ==
    /\ page.lookup # <<>>
    /\ BooksGET(page.lookup[1], "inventory")
    /\ page' = IF resp'.status = 200
               THEN [page EXCEPT !.book = resp'.data, !.step = "confirm",
                                 !.scanner = <<>>, !.loading = FALSE, !.lookup = <<>>]
               ELSE [page EXCEPT !.error = "not registered", !.loading = FALSE,
                                 !.lookup = <<>>]
    /\ UNCHANGED inflight

\* onChange of the group input, shown on the confirm step in borrow mode
setBorrowerGroup(value) ==
    /\ page.step = "confirm" /\ page.book # <<>> /\ page.mode = "borrow"
    /\ page.borrowerGroup # value
    /\ page' = [page EXCEPT !.borrowerGroup = value]
    /\ UNCHANGED <<fetched, env, clock, catalog, ledger, slack, mail, resp, inflight>>

\* handleSubmit up to its await of fetch; confirmed is the user's answer to the
\* confirm() dialog.  The button is rendered on the confirm step with a book,
\* and disabled while loading.
SubmitPressed(confirmed) ==
    /\ page.step = "confirm" /\ page.book # <<>> /\ ~page.loading
    /\ page' = IF page.mode = "null" THEN page
               ELSE IF page.mode = "borrow" /\ page.borrowerGroup = ""
               THEN [page EXCEPT !.error = "group required"]
               ELSE IF ~confirmed THEN page
               ELSE [page EXCEPT !.loading = TRUE, !.error = "",
                                 !.submit = <<page.mode>>]
    /\ UNCHANGED <<fetched, env, clock, catalog, ledger, slack, mail, resp, inflight>>

\* handleSubmit from the response of its fetch on: POST or PUT /api/lending
\* serves the request, with the body made of the book the page holds
handleSubmit ==
    /\ page.submit # <<>>
    /\ page.book # <<>>
    /\ IF page.submit[1] = "borrow"
       THEN \E session \in Sessions :
               LendingPOST(session, [ok |-> TRUE, isbn |-> page.book[1].isbn,
                                     title |-> page.book[1].title,
                                     borrowerGroup |-> page.borrowerGroup])
       ELSE LendingPUT([ok |-> TRUE, isbn |-> page.book[1].isbn])
    /\ page' = IF resp'.status = 200
               THEN [page EXCEPT !.message = "completed", !.step = "result",
                                 !.loading = FALSE, !.submit = <<>>]
               ELSE [page EXCEPT !.error = "failed", !.loading = FALSE, !.submit = <<>>]
    /\ UNCHANGED inflight

\* handleReset: the scanner's close button, the cancel button of the confirm
\* step, and the button of the result step
handleReset ==
    /\ \/ page.step = "scan"
       \/ page.step = "confirm" /\ page.book # <<>>
       \/ page.step = "result"
    /\ page' = [page EXCEPT !.mode = "null", !.step = "select", !.book = <<>>,
                            !.borrowerGroup = "", !.message = "", !.error = "",
                            !.scanner = <<>>]
    /\ UNCHANGED <<fetched, env, clock, catalog, ledger, slack, mail, resp, inflight>>

-----------------------------------------------------------------------------
(* The actions *)

\* time passes between requests
Tick ==
    /\ clock + 1 \in Instants
    /\ clock' = clock + 1
    /\ UNCHANGED <<fetched, env, catalog, ledger, slack, resp, mail, inflight, page>>

Borrow ==
    /\ \E session \in Sessions, body \in LendBodies : LendingPOST(session, body)
    /\ UNCHANGED client

Return ==
    /\ \E body \in ReturnBodies : LendingPUT(body)
    /\ UNCHANGED client

ListStatus ==
    /\ \E session \in Sessions : BookListGET(session)
    /\ UNCHANGED client

Register ==
    /\ \E body \in RegisterBodies : RegisterPOST(body)
    /\ UNCHANGED client

\* ?type=inventory confirms against the catalog; any other type discovers
Lookup ==
    /\ \E rawIsbn \in RawIsbns, type \in {"inventory", "discovery"} : BooksGET(rawIsbn, type)
    /\ UNCHANGED client

\* the days between a borrow and the reminder run two days before its due date
TwelveDays == 12 * 24

TwelveDaysPass ==
    /\ clock + TwelveDays \in Instants
    /\ clock' = clock + TwelveDays
    /\ UNCHANGED <<fetched, env, catalog, ledger, slack, mail, resp, inflight, page>>

LegacyBorrow ==
    /\ \E body \in LegacyLendBodies : LegacyLendingPOST(body)
    /\ UNCHANGED client

Sweep ==
    /\ \E authHeader \in AuthHeaders : ReminderGET(authHeader)
    /\ UNCHANGED client

Visit ==
    /\ \E pathname \in Pathnames, token \in Tokens : PageRequest(pathname, token)
    /\ UNCHANGED client

NoResponse == Response("none", <<>>, 0, "", <<>>)

-----------------------------------------------------------------------------
(* SpecCatalog: registration, from the empty spreadsheet *)

InitCatalog ==
    /\ \E d \in Deployments : env = d.env /\ clock = d.clock
    /\ catalog = <<>>
    /\ ledger = <<>>
    /\ slack = <<>>
    /\ fetched = <<>>
    /\ mail = <<>>
    /\ resp = NoResponse
    /\ inflight = [caller \in Callers |-> Idle]
    /\ page = PageLoaded

NextCatalog == Tick \/ Register

SpecCatalog == InitCatalog /\ [][NextCatalog]_vars

-----------------------------------------------------------------------------
(* Spec: lending.  The lending handlers never read the catalog and            *)
(* registration never reads the ledger, so the ledger is followed from a      *)
(* catalog that SpecCatalog reaches: both books registered, in the UTC        *)
(* deployment, and only the second one, in the JST deployment.                *)

Book1 == CHOOSE b \in RegisterBodies : b.isbn = ISBN1 /\ b.title # ""
Book2 == CHOOSE b \in RegisterBodies : b.isbn = ISBN2 /\ b.title # ""

CatalogOf(d) ==
    IF d.env.tz = 0
    THEN LET first == <<CatalogRow(Book1, <<>>, d.clock)>>
         IN  Append(first, CatalogRow(Book2, first, d.clock))
    ELSE <<CatalogRow(Book2, <<>>, d.clock)>>

Init ==
    /\ \E d \in Deployments : env = d.env /\ clock = d.clock /\ catalog = CatalogOf(d)
    /\ ledger = <<>>
    /\ slack = <<>>
    /\ fetched = <<>>
    /\ mail = <<>>
    /\ resp = NoResponse
    /\ inflight = [caller \in Callers |-> Idle]
    /\ page = PageLoaded

Next == Tick \/ Borrow \/ Return \/ ListStatus

Spec == Init /\ [][Next]_vars

-----------------------------------------------------------------------------
(* SpecResolver: metadata lookups, against the same registered catalogs *)

NextResolver == Lookup

SpecResolver == Init /\ [][NextResolver]_vars

-----------------------------------------------------------------------------
(* SpecSweep: the reminder run.  Each deployment is followed from twelve days *)
(* before its instants, so that loans borrowed at the start are due two days  *)
(* after the run; the ledger holds loans of the first book, written by both   *)
(* borrow handlers.                                                           *)

InitSweep ==
    /\ \E d \in Deployments :
          LET start == [env |-> d.env, clock |-> d.clock - TwelveDays]
          IN  env = start.env /\ clock = start.clock /\ catalog = CatalogOf(start)
    /\ ledger = <<>>
    /\ slack = <<>>
    /\ fetched = <<>>
    /\ mail = <<>>
    /\ resp = NoResponse
    /\ inflight = [caller \in Callers |-> Idle]
    /\ page = PageLoaded

\* the requests of the first book's loans: its borrow, by each session, and its return
Loan1 == CHOOSE b \in LendBodies : b.isbn = ISBN1 /\ b.borrowerGroup # ""

BorrowBook1 ==
    /\ \E session \in Sessions : LendingPOST(session, Loan1)
    /\ UNCHANGED client

ReturnBook1 == LendingPUT([ok |-> TRUE, isbn |-> ISBN1]) /\ UNCHANGED client

NextSweep == TwelveDaysPass \/ BorrowBook1 \/ LegacyBorrow \/ ReturnBook1 \/ Sweep

SpecSweep == InitSweep /\ [][NextSweep]_vars

-----------------------------------------------------------------------------
(* SpecStore: the three handlers that write, from the empty spreadsheet; the  *)
(* requests are those of the first book                                       *)

RegisterBook1 == RegisterPOST(Book1) /\ UNCHANGED client

NextStore == RegisterBook1 \/ BorrowBook1 \/ ReturnBook1

SpecStore == InitCatalog /\ [][NextStore]_vars

-----------------------------------------------------------------------------
(* SpecRegisterRace and SpecReturnRace: two callers whose requests are served *)
(* step by step, from the empty spreadsheet: registrations of the two books,  *)
(* and returns of the first book's loans                                      *)

RegisterReads ==
    \E caller \in Callers, body \in {Book1, Book2} : RegisterGetRows(caller, body)

RegisterWrites == \E caller \in Callers : RegisterAddRow(caller)

NextRegisterRace == RegisterReads \/ RegisterWrites

SpecRegisterRace == InitCatalog /\ [][NextRegisterRace]_vars

ReturnReads == \E caller \in Callers : ReturnGetRows(caller, [ok |-> TRUE, isbn |-> ISBN1])

ReturnWrites == \E caller \in Callers : ReturnSave(caller)

NextReturnRace == BorrowBook1 \/ ReturnReads \/ ReturnWrites

SpecReturnRace == InitCatalog /\ [][NextReturnRace]_vars

-----------------------------------------------------------------------------
(* SpecDiscovery: discovery lookups in flight.  The runtime runs a handler on *)
(* as soon as the promise it awaits settles, hence the weak fairness of the   *)
(* return.                                                                    *)

DiscoveryStarts == \E rawIsbn \in {<<>>, ISBN1} : DiscoveryBegins(1, rawIsbn)

DiscoveryEnds == DiscoveryReturns(1)

NextDiscovery == DiscoveryStarts \/ DiscoveryEnds

SpecDiscovery == Init /\ [][NextDiscovery]_vars /\ WF_vars(DiscoveryEnds)

-----------------------------------------------------------------------------
(* SpecUserPage: one user on the user page, against the registered catalogs *)

SelectMode == \E selectedMode \in {"borrow", "return"} : handleSelectMode(selectedMode)

Show == \E code \in Barcodes : ShowBarcode(code)

EnterGroup == \E value \in {"", "Eng"} : setBorrowerGroup(value)

PressSubmit == \E confirmed \in BOOLEAN : SubmitPressed(confirmed)

NextUserPage ==
    \/ SelectMode \/ Show \/ HideBarcode \/ handleDetected
    \/ EnterGroup \/ PressSubmit \/ handleSubmit \/ handleReset

SpecUserPage == Init /\ [][NextUserPage]_vars

-----------------------------------------------------------------------------
(* SpecPages: page requests through the middleware *)

NextPages == Visit

SpecPages == Init /\ [][NextPages]_vars

-----------------------------------------------------------------------------
(* Properties of the ledger, checked under Spec *)

\* the ISBNs a request of the model names
Isbns == { b.isbn : b \in LendBodies } \ {<<>>}

\* the indices of the open loans of isbn: same isbn, returnedAt empty
OpenLoans(rows, isbn) ==
    { k \in 1..Len(rows) : rows[k].isbn = isbn /\ rows[k].returnedAt = <<>> }

Newest(indices) == CHOOSE k \in indices : \A j \in indices : j <= k

\* C1: for every ISBN at most one loan record has an empty returnedAt.
AtMostOneActiveLoan == \A i \in Isbns : Cardinality(OpenLoans(ledger, i)) <= 1

\* C2: a borrow of an ISBN that has an open loan is refused: it answers with an
\* error, appends no loan record and sends no notification.
BorrowWhileLentIsRefused ==
    [][\A session \in Sessions, body \in LendBodies :
          (OpenLoans(ledger, body.isbn) # {} /\ LendingPOST(session, body))
              => (resp'.status # 200 /\ ledger' = ledger /\ slack' = slack)]_vars

\* C4: every loan record's dueAt is the calendar date 14 days after its borrowedAt.
DueAtIsBorrowedAtPlus14 ==
    \A k \in 1..Len(ledger) : ledger[k].dueAt = AddDays(ledger[k].borrowedAt, 14)

\* the entries listStatus() shows for isbn in the state after the step
ListedAfter(isbn) ==
    LET books == ListBooks(catalog', ledger')
    IN  { books[k] : k \in { j \in 1..Len(books) : books[j].isbn = isbn } }

\* C5: a successful return that directly follows a successful borrow of the same
\* catalogued ISBN leaves the item listed as available, with no open-loan detail.
BorrowThenReturnIsAvailable ==
    [][\A body \in ReturnBodies :
          ( /\ resp.op = "borrow" /\ resp.status = 200 /\ resp.isbn = body.isbn
            /\ LendingPUT(body) /\ resp'.status = 200 )
              => /\ ListedAfter(body.isbn) # {}
                    => \A b \in ListedAfter(body.isbn) :
                          b.status = "available" /\ b.lendingDetail = <<>>]_vars

\* C6: a return of an ISBN with no open loan answers 404 (unless the spreadsheet
\* itself fails, which answers 500), changes no loan record and sends no notification.
ReturnWithoutOpenLoanIsNotFound ==
    [][\A body \in ReturnBodies :
          ( /\ resp'.op = "return" /\ resp'.isbn = body.isbn
            /\ body.isbn # <<>> /\ OpenLoans(ledger, body.isbn) = {} /\ LendingPUT(body) )
              => /\ resp'.status \in {404, 500}
                 /\ resp'.log = "" => resp'.status = 404
                 /\ ledger' = ledger
                 /\ slack' = slack]_vars

\* a return of an ISBN whose loans are all closed was answered 404
ReturnedNotFound ==
    /\ resp.op = "return" /\ resp.status = 404
    /\ \E k \in 1..Len(ledger) : ledger[k].isbn = resp.isbn
    /\ OpenLoans(ledger, resp.isbn) = {}

\* C7: a successful return sets returnedAt, to a date, on the most recently
\* appended open record of the ISBN and changes nothing else in the ledger.
ReturnClosesNewestOpenLoan ==
    [][\A body \in ReturnBodies :
          ( /\ resp'.op = "return" /\ resp'.status = 200 /\ resp'.isbn = body.isbn
            /\ LendingPUT(body) )
              => /\ OpenLoans(ledger, body.isbn) # {}
                 /\ LET k == Newest(OpenLoans(ledger, body.isbn))
                    IN  /\ ledger'[k].returnedAt # <<>>
                        /\ ledger' = [ledger EXCEPT ![k].returnedAt = ledger'[k].returnedAt]]_vars

\* a return succeeded while an older loan of the same ISBN was open, and left it open
ReturnedNewestOfTwo ==
    /\ resp.op = "return" /\ resp.status = 200
    /\ \E j, k \in 1..Len(ledger) :
          /\ j < k
          /\ ledger[j].isbn = resp.isbn /\ ledger[k].isbn = resp.isbn
          /\ ledger[j].returnedAt = <<>> /\ ledger[k].returnedAt # <<>>

\* what GET /api/books/list answered agrees with the ledger: one entry per catalog
\* row, newest first, available exactly when the ISBN has no open loan
ListedStatusIsDerived ==
    (resp.op = "list" /\ resp.status = 200) =>
        /\ Len(resp.data) = Len(catalog)
        /\ \A k \in 1..Len(catalog) :
              LET b == resp.data[Len(catalog) + 1 - k]
                  open == OpenLoans(ledger, catalog[k].isbn)
              IN  /\ b.isbn = catalog[k].isbn
                  /\ b.status = IF open = {} THEN "available" ELSE "lent"
                  /\ open = {} => b.lendingDetail = <<>>
                  /\ open # {} =>
                        \E j \in open :
                            b.lendingDetail = <<[dueAt |-> ledger[j].dueAt,
                                                 borrowerName |-> ledger[j].borrowerName]>>

\* C8: listStatus() reports every catalog entry as available exactly when no loan
\* of its ISBN is open, else as lent with the dueAt and borrower of an open loan
\* of that ISBN, and changes neither the catalog nor the ledger.
ListStatusIsDerivedAndReadOnly ==
    /\ []ListedStatusIsDerived
    /\ [][(resp'.op = "list" /\ ListStatus) => (catalog' = catalog /\ ledger' = ledger)]_vars

\* the list was answered with one book lent and another available
ListedLentAndAvailable ==
    /\ resp.op = "list" /\ resp.status = 200
    /\ \E j, k \in 1..Len(resp.data) :
          resp.data[j].status = "lent" /\ resp.data[k].status = "available"

DistinctLoanIds == \A j, k \in 1..Len(ledger) : j # k => ledger[j].id # ledger[k].id

\* C9: no loan record is ever removed, record ids are pairwise distinct, and the
\* only change to an existing record is its returnedAt going from empty to a date.
LedgerIsAppendOnly ==
    /\ []DistinctLoanIds
    /\ [][/\ Len(ledger') >= Len(ledger)
          /\ \A k \in 1..Len(ledger) :
                \/ ledger'[k] = ledger[k]
                \/ /\ ledger[k].returnedAt = <<>>
                   /\ ledger'[k].returnedAt # <<>>
                   /\ ledger'[k] = [ledger[k] EXCEPT !.returnedAt = ledger'[k].returnedAt]]_vars

\* two loans are recorded and the first of them has been returned
TwoLoansOneReturned ==
    Len(ledger) >= 2 /\ ledger[1].returnedAt # <<>> /\ ledger[2].returnedAt = <<>>

-----------------------------------------------------------------------------
(* Properties of notification and authentication, checked under Spec *)

\* C15: a borrow or return whose ledger write succeeded answers 200, and one
\* whose POST to the Slack webhook failed still answers 200 with its loan record
\* appended (borrow) or its returnedAt written (return).
NotificationFailureKeepsOutcome ==
    [][/\ ledger' # ledger => resp'.status = 200
       /\ ((ledger' # ledger \/ resp' # resp) /\ resp'.log = "Slack Notification Error") =>
                /\ resp'.status = 200
                /\ resp'.op = "borrow" => ledger' = Append(ledger, resp'.data[1])
                /\ resp'.op = "return" =>
                      \E k \in 1..Len(ledger) :
                          /\ ledger[k].returnedAt = <<>>
                          /\ ledger' = [ledger EXCEPT ![k].returnedAt = ledger'[k].returnedAt]
                          /\ ledger'[k].returnedAt # <<>>]_vars

\* a return was answered 200 although its Slack message could not be posted
ReturnedDespiteSlackFailure ==
    /\ resp.op = "return" /\ resp.status = 200
    /\ resp.log = "Slack Notification Error"
    /\ \E k \in 1..Len(ledger) : ledger[k].isbn = resp.isbn /\ ledger[k].returnedAt # <<>>

\* C16: a borrow or return request without a verified identity is answered 401
\* and leaves the ledger as it was.  PUT never reads the session, so each of its
\* steps is also the step of a request that carries none.
UnauthenticatedIsRejected ==
    [][/\ \A session \in Sessions, body \in LendBodies :
             (session.email = "" /\ LendingPOST(session, body))
                 => (resp'.status = 401 /\ ledger' = ledger)
       /\ \A body \in ReturnBodies :
             LendingPUT(body) => (resp'.status = 401 /\ ledger' = ledger)]_vars


-----------------------------------------------------------------------------
(* Properties of the reminder run, checked under SpecSweep *)

\* C14: a reminder run that starts on the JST date D and answers 200 selected
\* exactly the loan records with an empty returnedAt and a dueAt of D + 2 days.
SweepSelectsLoansDueInTwoDays ==
    [][\A authHeader \in AuthHeaders :
          (ReminderGET(authHeader) /\ resp'.status = 200) =>
              LET due == AddDays(getJstDateString(clock), 2)
                  selected == resp'.data[1].targets
              IN  { selected[j] : j \in 1..Len(selected) } =
                     { ledger[k].id : k \in { i \in 1..Len(ledger) :
                           ledger[i].returnedAt = <<>> /\ ledger[i].dueAt = due } }]_vars

\* C17: a reminder run that reached its mail loop handed the transporter one
\* mail for each selected loan with a borrowerEmail, in order, and none for a
\* loan without one, and answered 200 whether or not a mail could be delivered.
SweepRemindsEveryBorrowerWithEmail ==
    [][\A authHeader \in AuthHeaders :
          (ReminderGET(authHeader) /\ (resp'.status = 200 \/ mail' # <<>>)) =>
              LET targets == SweepTargets(ledger,
                                 getJstDateString(TargetDate(clock, clock')))
                  withEmail == SelectSeq(targets, LAMBDA k : ledger[k].borrowerEmail # "")
              IN  /\ Len(mail') = Len(withEmail)
                  /\ \A j \in 1..Len(withEmail) :
                        /\ mail'[j].to = ledger[withEmail[j]].borrowerEmail
                        /\ mail'[j].title = ledger[withEmail[j]].title
                  /\ resp'.status = 200]_vars

-----------------------------------------------------------------------------
(* Properties of registration, checked under SpecCatalog *)

\* the indices of the catalog rows of isbn
EntriesOf(rows, isbn) == { k \in 1..Len(rows) : rows[k].isbn = isbn }

NoTwoEntriesShareAnIsbn ==
    \A j, k \in 1..Len(catalog) : j # k => catalog[j].isbn # catalog[k].isbn

\* C3: with register calls handled one at a time, a register of an ISBN the
\* catalog already holds answers 409 (500 if the spreadsheet read fails) and
\* writes nothing, and no two catalog entries ever share an ISBN.
RegisterTwiceKeepsOneEntry ==
    /\ []NoTwoEntriesShareAnIsbn
    /\ [][\A body \in RegisterBodies :
             ( /\ body.isbn # <<>> /\ body.title # ""
               /\ EntriesOf(catalog, body.isbn) # {}
               /\ RegisterPOST(body) )
                 => /\ resp'.status \in {409, 500}
                    /\ resp'.log = "" => resp'.status = 409
                    /\ catalog' = catalog]_vars

\* a second register of a registered ISBN was answered 409, and one entry holds it
RegisteredTwice ==
    /\ resp.op = "register" /\ resp.status = 409
    /\ Cardinality(EntriesOf(catalog, resp.isbn)) = 1

\* C20: every stored catalog isbn consists of digits and X only, and no two
\* catalog entries have ISBNs that are equal once their separators are removed.
RegisterComparesNormalizedIsbns ==
    /\ \A k \in 1..Len(catalog) : catalog[k].isbn = NormalizeIsbn(catalog[k].isbn)
    /\ \A j, k \in 1..Len(catalog) :
          j # k => NormalizeIsbn(catalog[j].isbn) # NormalizeIsbn(catalog[k].isbn)

-----------------------------------------------------------------------------
(* Properties of the metadata lookup, checked under SpecResolver *)

\* the provider answered one of the calls of the last lookup with a volume
Yielded(provider) ==
    \E k \in 1..Len(fetched) :
        fetched[k].provider = provider /\ fetched[k].outcome \in {"data", "bare"}

Asked(provider) == \E k \in 1..Len(fetched) : fetched[k].provider = provider

\* C10: a discovery lookup asks Google Books first and OpenBD only if Google
\* Books gave no usable data, answers with the data of the first provider that
\* gave some, and answers 404 exactly when no provider gave any.
DiscoveryFallsBackInOrder ==
    resp.op = "discovery" /\ resp.isbn # <<>> =>
        /\ Asked("GoogleBooks")
        /\ \A j, k \in 1..Len(fetched) :
              (fetched[j].provider = "OpenBD" /\ fetched[k].provider = "GoogleBooks") => k < j
        /\ Asked("OpenBD") <=> ~Yielded("GoogleBooks")
        /\ resp.status \in {200, 404}
        /\ resp.status = 404 <=> (~Yielded("GoogleBooks") /\ ~Yielded("OpenBD"))
        /\ resp.status = 200 =>
              /\ Len(resp.data) = 1
              /\ resp.data[1].source =
                    IF Yielded("GoogleBooks") THEN "GoogleBooks" ELSE "OpenBD"

\* Google Books failed twice and the lookup was answered with OpenBD's data
FellBackToOpenBD ==
    /\ resp.op = "discovery" /\ resp.status = 200
    /\ resp.data[1].source = "OpenBD"
    /\ Asked("GoogleBooks") /\ ~Yielded("GoogleBooks")

\* the calls the last lookup made to provider, in order
CallsOf(provider) == SelectSeq(fetched, LAMBDA c : c.provider = provider)

Providers == {"GoogleBooks", "OpenBD"}
TransportFailures == {"timeout", "error"}
NoMatchAnswers == {"notOk", "noMatch"}

\* C11: a discovery lookup calls each provider at most twice: a second call is
\* made exactly when the first timed out or failed in transport, no third call
\* follows, and when both Google Books calls failed OpenBD is asked; if OpenBD
\* then gives a volume the answer is OpenBD's data.
EachProviderIsTriedAtMostTwice ==
    resp.op = "discovery" /\ resp.isbn # <<>> =>
        /\ \A p \in Providers :
              LET calls == CallsOf(p)
              IN  /\ Len(calls) <= 2
                  /\ Len(calls) = 2 <=>
                        (Len(calls) >= 1 /\ calls[1].outcome \in TransportFailures)
        /\ LET google == CallsOf("GoogleBooks")
           IN  (\A k \in 1..Len(google) : google[k].outcome \in TransportFailures) =>
                  /\ Len(google) = 2
                  /\ Asked("OpenBD")
                  /\ Yielded("OpenBD") =>
                        resp.status = 200 /\ resp.data[1].source = "OpenBD"

\* Google Books timed out on both attempts and OpenBD's data was the answer
GoogleTimedOutTwice ==
    /\ resp.op = "discovery" /\ resp.status = 200 /\ resp.data[1].source = "OpenBD"
    /\ CallsOf("GoogleBooks") = CallsTo("GoogleBooks", <<"timeout", "timeout">>)

\* C12: in a discovery lookup no call to a provider follows an answer of that
\* provider that carries no match (a non-OK status, no items, or [null]): a
\* provider whose first answer is one is called exactly once, and when it is
\* Google Books the lookup moves on to OpenBD.
NoMatchIsNotRetried ==
    resp.op = "discovery" /\ resp.isbn # <<>> =>
        /\ \A p \in Providers :
              LET calls == CallsOf(p)
              IN  \A k \in 1..Len(calls) :
                     calls[k].outcome \in NoMatchAnswers => k = Len(calls)
        /\ LET google == CallsOf("GoogleBooks")
           IN  google[Len(google)].outcome \in NoMatchAnswers => Asked("OpenBD")

\* Google Books answered once, with no match, and the lookup went on to OpenBD
GoogleHadNoMatchOnce ==
    /\ resp.op = "discovery"
    /\ CallsOf("GoogleBooks") \in { CallsTo("GoogleBooks", <<o>>) : o \in NoMatchAnswers }
    /\ Asked("OpenBD")

\* the first catalog row whose isbn is the identifier, normalized: <<>> if none
LinearScan(rows, raw) ==
    LET same == EntriesOf(rows, NormalizeIsbn(raw))
    IN  IF same = {} THEN <<>>
        ELSE <<rows[CHOOSE k \in same : \A j \in same : k <= j]>>

\* C13: a lookup with type=inventory calls no provider, whatever the catalog
\* search gives; when the catalog was read, it answers 200 with the entry a
\* linear scan for the normalized identifier finds, and 404 if the scan finds none.
InventoryNeverAsksProviders ==
    resp.op = "inventory" /\ resp.isbn # <<>> =>
        /\ fetched = <<>>
        /\ resp.status \in {200, 404}
        /\ resp.log = "" =>
              LET found == LinearScan(catalog, resp.isbn)
              IN  IF found = <<>> THEN resp.status = 404 /\ resp.data = <<>>
                  ELSE /\ resp.status = 200
                       /\ Len(resp.data) = 1
                       /\ resp.data[1].source = "Inventory"
                       /\ resp.data[1].isbn = found[1].isbn
                       /\ resp.data[1].title = found[1].title
                       /\ resp.data[1].publishedDate = found[1].publishedDate
                       /\ resp.data[1].thumbnailUrl = found[1].image

\* an identifier sent with a hyphen was confirmed against the catalog
ConfirmedHyphenatedIsbn ==
    /\ resp.op = "inventory" /\ resp.status = 200 /\ fetched = <<>>
    /\ resp.isbn # NormalizeIsbn(resp.isbn)
    /\ resp.data[1].isbn = NormalizeIsbn(resp.isbn)

\* C18: with the spreadsheet credentials missing, a type=inventory lookup is not
\* answered 404, the answer of a book that is not in the inventory.
MissingCredentialsAreNotNotFound ==
    (resp.op = "inventory" /\ resp.isbn # <<>> /\ ~env.sheet) => resp.status # 404

\* C19: a lookup whose identifier is empty once normalized is answered 400 and
\* calls no provider.
EmptyNormalizedIsbnIsRejected ==
    (resp.op \in {"inventory", "discovery"} /\ NormalizeIsbn(resp.isbn) = <<>>) =>
        resp.status = 400 /\ fetched = <<>>

-----------------------------------------------------------------------------
(* Further properties of the ledger, checked under Spec *)

\* C22: a well-formed borrow, by a session with an email, of an ISBN that no
\* catalog entry holds is not answered 200 (it is answered 404, or 500 if the
\* spreadsheet fails) and appends no loan record.
BorrowOfUnknownBookIsNotFound ==
    [][\A session \in Sessions, body \in LendBodies :
          ( /\ resp'.op = "borrow" /\ resp'.isbn = body.isbn
            /\ session.email # "" /\ body.isbn # <<>> /\ body.borrowerGroup # ""
            /\ EntriesOf(catalog, body.isbn) = {}
            /\ LendingPOST(session, body) )
              => (resp'.status \in {404, 500} /\ ledger' = ledger)]_vars

\* C26: when an ISBN has more than one open loan record, the detail the list
\* shows for it is the dueAt and borrower of the most recently appended open
\* record, the record the next return of the ISBN closes.
ListShowsNewestOpenLoan ==
    (resp.op = "list" /\ resp.status = 200) =>
        \A k \in 1..Len(resp.data) :
            LET open == OpenLoans(ledger, resp.data[k].isbn)
            IN  Cardinality(open) > 1 =>
                   /\ resp.data[k].lendingDetail =
                         <<[dueAt |-> ledger[Newest(open)].dueAt,
                            borrowerName |-> ledger[Newest(open)].borrowerName]>>
                   /\ FindTargetRow(ledger, resp.data[k].isbn) = Newest(open)

\* the list was answered while one ISBN had two open loans of different borrowers
ListedBookLentTwice ==
    /\ resp.op = "list" /\ resp.status = 200
    /\ \E i \in Isbns :
          /\ Cardinality(OpenLoans(ledger, i)) = 2
          /\ \E j, k \in OpenLoans(ledger, i) :
                ledger[j].borrowerName # ledger[k].borrowerName
          /\ \E k \in 1..Len(resp.data) : resp.data[k].isbn = i

-----------------------------------------------------------------------------
(* Further properties of the reminder run, checked under SpecSweep *)

\* C25: with CRON_SECRET set, a reminder request whose Authorization header is
\* not "Bearer <CRON_SECRET>" is answered 401 and sends no mail, and one whose
\* header is that value is not answered 401; with CRON_SECRET unset no request
\* is answered 401.
CronSecretGuardsTheSweep ==
    [][\A authHeader \in AuthHeaders :
          (resp'.op = "sweep" /\ ReminderGET(authHeader)) =>
              /\ (env.cronSecret /\ authHeader # "Bearer secret")
                    => (resp'.status = 401 /\ mail' = <<>> /\ clock' = clock)
              /\ (env.cronSecret /\ authHeader = "Bearer secret") => resp'.status # 401
              /\ ~env.cronSecret => resp'.status # 401]_vars

-----------------------------------------------------------------------------
(* Properties of the writes, checked under SpecStore *)

\* the response of a request whose addRow or save threw
WriteFailed(response) ==
    response.log \in {"Spreadsheet Error: addRow", "Lending Error: addRow",
                      "Returning Error: save"}

\* C23: a register, borrow or return whose store write failed is answered 500
\* and leaves the catalog, the ledger and the Slack channel as they were; and a
\* Slack message is only posted in a step that wrote the ledger and answers 200.
FailedWriteChangesNothing ==
    [][/\ WriteFailed(resp') =>
             /\ resp'.status = 500
             /\ catalog' = catalog /\ ledger' = ledger /\ slack' = slack
       /\ slack' # slack => (resp'.status = 200 /\ ledger' # ledger)
       /\ (resp'.status = 200 /\ resp' # resp) =>
             (catalog' # catalog \/ ledger' # ledger)]_vars

\* the save of a return failed: the loan it would have closed is still open
ReturnFailedAtTheWrite ==
    /\ resp.op = "return" /\ resp.log = "Returning Error: save"
    /\ OpenLoans(ledger, resp.isbn) # {}
    /\ catalog # <<>>

-----------------------------------------------------------------------------
(* Properties of the middleware, checked under SpecPages *)

\* the addresses ADMIN_EMAILS lists
ConfiguredAdmins ==
    { env.adminEmails[k] : k \in 1..Len(env.adminEmails) } \ {",", " "}

\* the path is /admin or lies below it
UnderAdmin(pathname) ==
    /\ StartsWith(pathname, <<"/", "a", "d", "m", "i", "n">>)
    /\ Len(pathname) = 6 \/ pathname[7] = "/"

\* C24: a request for a path under /admin is passed on only if its token carries
\* a non-empty email that ADMIN_EMAILS lists; with a token that does not, it is
\* redirected to /user, and without a token it is redirected to /login.
AdminPagesAreForAdmins ==
    resp.op = "page" =>
        LET request == resp.data[1]
        IN  UnderAdmin(request.pathname) =>
               /\ request.answer = "next" =>
                     /\ request.token.present
                     /\ request.token.email # ""
                     /\ request.token.email \in ConfiguredAdmins
               /\ ( /\ request.token.present
                    /\ request.token.email \notin ConfiguredAdmins )
                     => request.answer = "redirect /user"
               /\ ~request.token.present => request.answer = "redirect /login"

\* a logged-in user whom ADMIN_EMAILS does not list asked for a page below /admin
\* and was redirected to /user
NonAdminWasRedirected ==
    /\ resp.op = "page"
    /\ UnderAdmin(resp.data[1].pathname) /\ Len(resp.data[1].pathname) > 6
    /\ resp.data[1].token.email # ""
    /\ resp.data[1].token.email \notin ConfiguredAdmins
    /\ ConfiguredAdmins # {}
    /\ resp.data[1].answer = "redirect /user"

-----------------------------------------------------------------------------
(* Properties of requests served together, checked under SpecRegisterRace and *)
(* SpecReturnRace                                                             *)

\* C21: a register call that read the catalog before any row of its ISBN was
\* appended passes the duplicate check and appends its row when the store takes
\* the write, whatever was appended after its read: two calls that both read
\* first both append, and the catalog then holds two rows of one ISBN.
BothRegistersAppend ==
    [][\A caller \in Callers :
          ( /\ inflight[caller].op = "register"
            /\ inflight'[caller] = Idle
            /\ ~IsDuplicate(inflight[caller].rows, inflight[caller].body.isbn)
            /\ resp'.log = "" )
          => /\ resp'.status = 200
             /\ Len(catalog') = Len(catalog) + 1
             /\ catalog'[Len(catalog')].isbn = inflight[caller].body.isbn]_vars

\* two rows of the catalog carry one ISBN, both written by calls that were
\* answered with success
TwoEntriesForOneIsbn ==
    /\ \E j, k \in 1..Len(catalog) : j < k /\ catalog[j].isbn = catalog[k].isbn
    /\ resp.op = "register" /\ resp.status = 200
    /\ \A caller \in Callers : inflight[caller] = Idle

\* the loan records that carry a return date
Closed(rows) == { k \in 1..Len(rows) : rows[k].returnedAt # <<>> }

\* C27: every return call that is answered with success has closed a loan
\* record of its own: the record it wrote was open until then, and the number of
\* closed records grew by one.
EachSuccessfulReturnClosesALoan ==
    [][\A caller \in Callers :
          ( /\ inflight[caller].op = "return"
            /\ inflight'[caller] = Idle
            /\ resp'.status = 200 )
          => Cardinality(Closed(ledger')) = Cardinality(Closed(ledger)) + 1]_vars

-----------------------------------------------------------------------------
(* Properties of discovery lookups in flight, checked under SpecDiscovery *)

\* C30: every discovery lookup that was begun is answered in the end, however
\* its providers behave, and no lookup makes more than four provider calls.
EveryDiscoveryReturns ==
    /\ (inflight[1].op = "discovery") ~> (inflight[1] = Idle)
    /\ [](Len(fetched) <= 4)

-----------------------------------------------------------------------------
(* Properties of the user page, checked under SpecUserPage *)

\* C28: the page is on the confirm or the result step only while a mode is
\* selected, and on the select step it holds no book, also when reset is
\* pressed while a fetch is in flight and the fetch then completes.
StepsKeepTheirMode ==
    /\ page.step \in {"confirm", "result"} => page.mode # "null"
    /\ page.step = "select" => page.book = <<>>

\* the inventory lookup of the mounted scanner's detection has failed: the page
\* is on the scan step, shows the error and waits for nothing
LookupFailed ==
    /\ page.step = "scan" /\ page.scanner # <<>> /\ page.scanner[1].isScanned
    /\ page.error # "" /\ ~page.loading /\ page.book = <<>>

\* C29: a failed inventory lookup leaves the page on the scan step with the
\* error shown, and a barcode that then comes in front of the camera is
\* delivered to handleDetected and starts a new lookup.
ScanAgainAfterFailedLookup ==
    [][/\ ( /\ page.lookup # <<>> /\ page.step = "scan"
            /\ page'.lookup = <<>> /\ resp'.status # 200 )
          => (page'.step = "scan" /\ page'.error # "")
       /\ (LookupFailed /\ page'.camera # <<>> /\ page.camera = <<>>)
          => page'.lookup = page'.camera]_vars

====
